---- MODULE Spec2Model ----
(***************************************************************************)
(* Job-role approval workflow of the hiring backend                        *)
(* (backend/fastapi_app/routers/jobs.py).                                  *)
(*                                                                         *)
(* The Record Store holds the job_roles rows, their technical_assessments  *)
(* child rows and the approval_requests log.  Every request handler is a   *)
(* coroutine: the code between two awaited store calls runs atomically and *)
(* each awaited store call is one step, so the handlers of concurrent      *)
(* requests interleave at their store steps.                               *)
(***************************************************************************)
EXTENDS Integers, Sequences, FiniteSets, TLC

\* ------------------------------------------------------------------ bounds
MaxVersion == 3
NumProcs == 2
MaxSubmissions == 2

\* ------------------------------------------------------- encoding of None
Null == "null"
NoVersion == -1
NoList == << >>

Some(l) == << l >>

\* ------------------------------------------------------------ input sets
Procs == 1 .. NumProcs
JobIds == {1}

Users == {"emp", "emp2", "hr", "adm", "cand"}

Role(u) ==
    CASE u = "emp" -> "employee"
      [] u = "emp2" -> "employee"
      [] u = "hr" -> "hr"
      [] u = "adm" -> "admin"
      [] u = "cand" -> "candidate"
      [] u = "cand2" -> "candidate"

CreateTitles == {"t1"}
PatchTitles == {Null, "t2"}
CreateQuestions == {<< >>, <<"q1">>}
PatchQuestions == {NoList, Some(<< >>), Some(<<"q2">>)}
Versions == 1 .. MaxVersion
PatchVersions == {NoVersion} \cup Versions
Reasons == {"not needed"}
ReapprovalReason == "Re-approval required after edit"
Now == "now"

\* ----------------------------------------------------------------- state
VARIABLES
    jobs,        \* job_roles table: job id -> row, or NoJob
    questions,   \* technical_assessments rows of each job
    approvals,   \* approval_requests table, in insertion order
    procs,       \* the request handler running in each slot
    last,        \* history: the request that returned last, with its response
    writtenAt,   \* history: versions read by the handlers whose job write succeeded
    wonVersions, \* history: expected versions of the edits whose write succeeded
    script,      \* history: how far the responses so far follow the scenario
                 \* create, approve, edit(title), approve; "off" once they leave
                 \* it, "mute" in the runs that keep no history at all
    applications, \* job_applications table, in insertion order
    responses,   \* technical_assessment_responses table, in insertion order
    tasks        \* background scoring runs, in the order they were scheduled

vars == <<jobs, questions, approvals, procs, last, writtenAt, wonVersions, script,
          applications, responses, tasks>>

NoJob == [status |-> Null, is_open |-> FALSE, version |-> 0, created_by |-> Null,
          approved_by |-> Null, approved_at |-> Null, rejection_reason |-> Null,
          title |-> Null]

\* what is left of a row that was deleted; ids are never used twice
Deleted == [NoJob EXCEPT !.title = "deleted"]

Exists(j) == jobs[j].version # 0

Unused(j) == jobs[j] = NoJob

Idle == [pc |-> "idle", op |-> Null, user |-> Null, job |-> 0,
         status_read |-> Null, db_version |-> 0, cv |-> NoVersion,
         ptitle |-> Null, pq |-> NoList, reason |-> Null,
         wrote |-> FALSE, new_version |-> 0, ar_ins |-> 0, outcome |-> Null,
         open_read |-> FALSE, route |-> Null, app |-> 0, answers |-> << >>,
         qmap |-> {}]

CanStart(p) == procs[p].pc = "idle"

\* the model follows a job until its version reaches MaxVersion, and one
\* version further while the responses follow the scenario
Followed(j) == jobs[j].version < MaxVersion + (IF script \in {"off", "mute"} THEN 0 ELSE 1)

Finish(r, res) == [r EXCEPT !.pc = "done", !.outcome = res]

PendingRows(j) ==
    {i \in DOMAIN approvals : approvals[i].job_id = j /\ approvals[i].status = "pending"}

PendingCount(j) == Cardinality(PendingRows(j))

Init ==
    /\ jobs = [j \in JobIds |-> NoJob]
    /\ questions = [j \in JobIds |-> << >>]
    /\ approvals = << >>
    /\ procs = [p \in Procs |-> Idle]
    /\ last = Idle
    /\ writtenAt = [j \in JobIds |-> {}]
    /\ wonVersions = [j \in JobIds |-> {}]
    /\ script = "off"
    /\ applications = << >>
    /\ responses = << >>
    /\ tasks = << >>

\* ------------------------------------------------------ rows and writes
\* a variant of the insert that creates the job closed
NewJobRowClosed(u, t) ==
    [status |-> "pending", is_open |-> FALSE, version |-> 1, created_by |-> u,
     approved_by |-> Null, approved_at |-> Null, rejection_reason |-> Null,
     title |-> t]

NewJobRow(u, t) ==
    [status |-> "pending", is_open |-> TRUE, version |-> 1, created_by |-> u,
     approved_by |-> Null, approved_at |-> Null, rejection_reason |-> Null,
     title |-> t]

NewApproval(j, u, why) ==
    [job_id |-> j, requested_by |-> u, status |-> "pending", reason |-> why,
     reviewed_by |-> Null, reviewed_at |-> Null]

FirstFreeId == CHOOSE j \in JobIds : Unused(j) /\ \A k \in JobIds : k < j => ~Unused(k)

\* update_dict of update_job is empty when the patch holds no scalar field
UpdateDictEmpty(pt) == pt = Null

VersionConflict(cv, dbv) == cv # NoVersion /\ cv # dbv

WasApproved(st) == st = "approved"

\* the row filter of the update: .eq("id", job_id) and, when supplied,
\* .eq("version", current_version)
EditMatches(row, cv) == row.version # 0 /\ (cv = NoVersion \/ row.version = cv)

\* a variant of the update that also resets a rejected job to pending
EditedRowResettingRejected(row, r) ==
    [row EXCEPT !.title = r.ptitle,
                !.status = IF r.status_read \in {"approved", "rejected"} THEN "pending" ELSE @,
                !.approved_by = IF WasApproved(r.status_read) THEN Null ELSE @,
                !.approved_at = IF WasApproved(r.status_read) THEN Null ELSE @,
                !.version = r.db_version + 1]

\* the row after update_dict has been applied to it
EditedRow(row, r) ==
    [row EXCEPT !.title = r.ptitle,
                !.status = IF WasApproved(r.status_read) THEN "pending" ELSE @,
                !.approved_by = IF WasApproved(r.status_read) THEN Null ELSE @,
                !.approved_at = IF WasApproved(r.status_read) THEN Null ELSE @,
                !.version = r.db_version + 1]

\* a variant of the approval that forgets the version increment
ApprovedRowKeepingVersion(row, r) ==
    [row EXCEPT !.status = "approved", !.approved_by = r.user, !.approved_at = Now,
                !.rejection_reason = Null]

ApprovedRow(row, r) ==
    [row EXCEPT !.status = "approved", !.approved_by = r.user, !.approved_at = Now,
                !.rejection_reason = Null, !.version = r.db_version + 1]

\* a variant of the rejection that leaves the approval stamps in place
RejectedRowKeepingApproval(row, r) ==
    [row EXCEPT !.status = "rejected", !.rejection_reason = r.reason,
                !.version = r.db_version + 1]

RejectedRow(row, r) ==
    [row EXCEPT !.status = "rejected", !.rejection_reason = r.reason,
                !.approved_by = Null, !.approved_at = Null,
                !.version = r.db_version + 1]

\* a variant of the update without the filter on the status
ReviewEvery(log, j, st, u, why) ==
    [i \in DOMAIN log |->
        IF log[i].job_id = j
        THEN [log[i] EXCEPT !.status = st, !.reviewed_by = u, !.reviewed_at = Now,
                            !.reason = IF st = "rejected" THEN why ELSE @]
        ELSE log[i]]

\* approval_requests.update(...).eq("job_id", j).eq("status", "pending")
ReviewPending(log, j, st, u, why) ==
    [i \in DOMAIN log |->
        IF log[i].job_id = j /\ log[i].status = "pending"
        THEN [log[i] EXCEPT !.status = st, !.reviewed_by = u, !.reviewed_at = Now,
                            !.reason = IF st = "rejected" THEN why ELSE @]
        ELSE log[i]]

AfterJobWrite(r) ==
    IF WasApproved(r.status_read) THEN "upd_ar"
    ELSE IF r.pq # NoList THEN "upd_qdel"
    ELSE "done"

\* the histories of the writes, kept unless the run is mute
Noted(S, v) == IF script = "mute" THEN S ELSE S \cup {v}

Store == <<jobs, questions, approvals>>
History == <<writtenAt, wonVersions>>
Candidate == <<applications, responses, tasks>>

\* the scenario of the lifecycle: create, approve, edit of the title, approve
ScriptNext(s, r) ==
    IF s = "mute" THEN "mute"
    ELSE IF s = "start" /\ r.op = "create" /\ r.outcome = "ok" THEN "created"
    ELSE IF s = "created" /\ r.op = "approve" /\ r.outcome = "ok" THEN "approved"
    ELSE IF s = "approved" /\ r.op = "edit" /\ r.outcome = "ok"
            /\ r.ptitle # Null /\ r.pq = NoList THEN "edited"
    ELSE IF s = "edited" /\ r.op = "approve" /\ r.outcome = "ok" THEN "reapproved"
    ELSE "off"

\* a handler that returns frees its slot; its response is kept in last
Move(p, r) ==
    /\ procs' = [procs EXCEPT ![p] = IF r.pc = "done" THEN Idle ELSE r]
    /\ last' = IF r.pc = "done" /\ script # "mute" THEN r ELSE last
    /\ script' = IF r.pc = "done" THEN ScriptNext(script, r) ELSE script

\* the job handlers leave the candidates' tables alone
Begin(p, r) == Move(p, r) /\ UNCHANGED Candidate

Step(p, r) == Move(p, r) /\ UNCHANGED Candidate

\* --------------------------------------------------------------- create_job
CreateJob(p, u, t, qs) ==
    /\ CanStart(p)
    /\ \E j \in JobIds : Unused(j)
    /\ LET r == [Idle EXCEPT !.op = "create", !.user = u, !.ptitle = t, !.pq = Some(qs)]
       IN  IF Role(u) \notin {"employee", "admin"}
           THEN /\ Begin(p, Finish(r, "Forbidden"))
                /\ UNCHANGED <<Store, History>>
           ELSE /\ jobs' = [jobs EXCEPT ![FirstFreeId] = NewJobRow(u, t)]
                /\ Begin(p, [r EXCEPT !.job = FirstFreeId, !.wrote = TRUE, !.new_version = 1,
                                      !.pc = IF qs # << >> THEN "create_q" ELSE "create_ar"])
                /\ UNCHANGED <<questions, approvals, History>>

CreateInsertQuestions(p) ==
    /\ procs[p].pc = "create_q"
    /\ questions' = [questions EXCEPT ![procs[p].job] = @ \o procs[p].pq[1]]
    /\ Step(p, [procs[p] EXCEPT !.pc = "create_ar"])
    /\ UNCHANGED <<jobs, approvals, History>>

CreateInsertApproval(p) ==
    /\ procs[p].pc = "create_ar"
    /\ approvals' = Append(approvals, NewApproval(procs[p].job, procs[p].user, Null))
    /\ Step(p, Finish([procs[p] EXCEPT !.ar_ins = 1], "ok"))
    /\ UNCHANGED <<jobs, questions, History>>

\* --------------------------------------------------------------- update_job
UpdateJob(p, u, j, cv, pt, pqv) ==
    /\ CanStart(p)
    /\ Followed(j)
    /\ LET r == [Idle EXCEPT !.op = "edit", !.user = u, !.job = j]
           row == jobs[j]
           rd == [r EXCEPT !.status_read = row.status, !.db_version = row.version,
                           !.cv = cv, !.ptitle = pt, !.pq = pqv]
       IN  /\ IF Role(u) \notin {"employee", "admin"} THEN Begin(p, Finish(r, "Forbidden"))
              ELSE IF ~Exists(j) THEN Begin(p, Finish(r, "NotFound"))
              ELSE IF row.created_by # u /\ Role(u) # "admin" THEN Begin(p, Finish(r, "Forbidden"))
              ELSE IF UpdateDictEmpty(pt) THEN Begin(p, Finish(rd, "ok"))
              ELSE IF VersionConflict(cv, row.version) THEN Begin(p, Finish(rd, "Conflict"))
              ELSE Begin(p, [rd EXCEPT !.pc = "upd_write"])
           /\ UNCHANGED <<Store, History>>

UpdateWrite(p) ==
    /\ procs[p].pc = "upd_write"
    /\ LET r == procs[p]
           j == r.job
       IN  IF EditMatches(jobs[j], r.cv)
           THEN /\ jobs' = [jobs EXCEPT ![j] = EditedRow(@, r)]
                /\ writtenAt' = [writtenAt EXCEPT ![j] = Noted(@, r.db_version)]
                /\ wonVersions' = [wonVersions EXCEPT ![j] =
                                      IF r.cv # NoVersion THEN Noted(@, r.cv) ELSE @]
                /\ LET w == [r EXCEPT !.wrote = TRUE, !.new_version = r.db_version + 1,
                                      !.pc = AfterJobWrite(r)]
                   IN  Step(p, IF w.pc = "done" THEN Finish(w, "ok") ELSE w)
                /\ UNCHANGED <<questions, approvals>>
           ELSE /\ Step(p, [r EXCEPT !.pc = "upd_check"])
                /\ UNCHANGED <<Store, History>>

\* a variant of the re-read that answers Conflict whatever it finds
UpdateCheckAlwaysConflict(p) ==
    /\ procs[p].pc = "upd_check"
    /\ Step(p, Finish(procs[p], "Conflict"))
    /\ UNCHANGED <<Store, History>>

\* the update matched no row: the job is read again to tell why
UpdateCheck(p) ==
    /\ procs[p].pc = "upd_check"
    /\ Step(p, Finish(procs[p], IF Exists(procs[p].job) THEN "Conflict" ELSE "NotFound"))
    /\ UNCHANGED <<Store, History>>

UpdateInsertApproval(p) ==
    /\ procs[p].pc = "upd_ar"
    /\ approvals' = Append(approvals, NewApproval(procs[p].job, procs[p].user, ReapprovalReason))
    /\ LET w == [procs[p] EXCEPT !.ar_ins = 1]
       IN  Step(p, IF w.pq # NoList THEN [w EXCEPT !.pc = "upd_qdel"] ELSE Finish(w, "ok"))
    /\ UNCHANGED <<jobs, questions, History>>

UpdateDeleteQuestions(p) ==
    /\ procs[p].pc = "upd_qdel"
    /\ questions' = [questions EXCEPT ![procs[p].job] = << >>]
    /\ Step(p, IF procs[p].pq[1] # << >> THEN [procs[p] EXCEPT !.pc = "upd_qins"]
               ELSE Finish(procs[p], "ok"))
    /\ UNCHANGED <<jobs, approvals, History>>

UpdateInsertQuestions(p) ==
    /\ procs[p].pc = "upd_qins"
    /\ questions' = [questions EXCEPT ![procs[p].job] = @ \o procs[p].pq[1]]
    /\ Step(p, Finish(procs[p], "ok"))
    /\ UNCHANGED <<jobs, approvals, History>>

\* ------------------------------------------------------ update_employee_job
\* update_data: the scalar fields of the patch, the reset of an approved job
\* and the version that was read, plus one
EmployeeEditedRow(row, r) ==
    [row EXCEPT !.title = IF r.ptitle = Null THEN @ ELSE r.ptitle,
                !.status = IF WasApproved(r.status_read) THEN "pending" ELSE @,
                !.approved_by = IF WasApproved(r.status_read) THEN Null ELSE @,
                !.approved_at = IF WasApproved(r.status_read) THEN Null ELSE @,
                !.version = r.db_version + 1]

AfterEmployeeChildren(r) == IF WasApproved(r.status_read) THEN "emp_ar" ELSE "emp_read"

UpdateEmployeeJob(p, u, j, cv, pt, pqv) ==
    /\ CanStart(p)
    /\ Followed(j)
    /\ LET r == [Idle EXCEPT !.op = "edit_emp", !.user = u, !.job = j]
           row == jobs[j]
           rd == [r EXCEPT !.status_read = row.status, !.db_version = row.version,
                           !.cv = cv, !.ptitle = pt, !.pq = pqv]
       IN  /\ IF Role(u) \notin {"employee", "admin"} THEN Begin(p, Finish(r, "Forbidden"))
              ELSE IF ~Exists(j) THEN Begin(p, Finish(r, "NotFound"))
              ELSE IF row.created_by # u /\ Role(u) # "admin" THEN Begin(p, Finish(r, "Forbidden"))
              ELSE IF VersionConflict(cv, row.version) THEN Begin(p, Finish(rd, "Conflict"))
              ELSE Begin(p, [rd EXCEPT !.pc = "emp_write"])
           /\ UNCHANGED <<Store, History>>

\* the update is filtered by the id alone
EmployeeWrite(p) ==
    /\ procs[p].pc = "emp_write"
    /\ LET r == procs[p]
           j == r.job
       IN  /\ jobs' = [jobs EXCEPT ![j] = IF Exists(j) THEN EmployeeEditedRow(@, r) ELSE @]
           /\ writtenAt' = [writtenAt EXCEPT ![j] = Noted(@, r.db_version)]
           /\ wonVersions' = [wonVersions EXCEPT ![j] =
                                 IF r.cv # NoVersion THEN Noted(@, r.cv) ELSE @]
           /\ Step(p, [r EXCEPT !.wrote = TRUE, !.new_version = r.db_version + 1,
                                !.pc = IF r.pq # NoList THEN "emp_qdel"
                                       ELSE AfterEmployeeChildren(r)])
           /\ UNCHANGED <<questions, approvals>>

EmployeeDeleteQuestions(p) ==
    /\ procs[p].pc = "emp_qdel"
    /\ questions' = [questions EXCEPT ![procs[p].job] = << >>]
    /\ Step(p, [procs[p] EXCEPT !.pc = IF procs[p].pq[1] # << >> THEN "emp_qins"
                                       ELSE AfterEmployeeChildren(procs[p])])
    /\ UNCHANGED <<jobs, approvals, History>>

EmployeeInsertQuestions(p) ==
    /\ procs[p].pc = "emp_qins"
    /\ questions' = [questions EXCEPT ![procs[p].job] = @ \o procs[p].pq[1]]
    /\ Step(p, [procs[p] EXCEPT !.pc = AfterEmployeeChildren(procs[p])])
    /\ UNCHANGED <<jobs, approvals, History>>

EmployeeInsertApproval(p) ==
    /\ procs[p].pc = "emp_ar"
    /\ approvals' = Append(approvals, NewApproval(procs[p].job, procs[p].user, ReapprovalReason))
    /\ Step(p, [procs[p] EXCEPT !.ar_ins = 1, !.pc = "emp_read"])
    /\ UNCHANGED <<jobs, questions, History>>

\* the response is what get_employee_job reads afterwards
EmployeeRead(p) ==
    /\ procs[p].pc = "emp_read"
    /\ LET r == procs[p]
           row == jobs[r.job]
       IN  Step(p, Finish(r, IF ~Exists(r.job) THEN "NotFound"
                             ELSE IF row.created_by # r.user /\ Role(r.user) # "admin"
                                  THEN "Forbidden"
                             ELSE "ok"))
    /\ UNCHANGED <<Store, History>>

\* --------------------------------------------------------------- delete_job
DeleteJob(p, u, j) ==
    /\ CanStart(p)
    /\ LET r == [Idle EXCEPT !.op = "delete", !.user = u, !.job = j]
           row == jobs[j]
       IN  /\ IF Role(u) \notin {"employee", "admin"} THEN Begin(p, Finish(r, "Forbidden"))
              ELSE IF ~Exists(j) THEN Begin(p, Finish(r, "NotFound"))
              ELSE IF row.created_by # u /\ Role(u) # "admin" THEN Begin(p, Finish(r, "Forbidden"))
              ELSE Begin(p, [r EXCEPT !.pc = "del_write"])
           /\ UNCHANGED <<Store, History>>

\* job_roles.delete().eq("id", job_id): only the job row is named by the code
DeleteWrite(p) ==
    /\ procs[p].pc = "del_write"
    /\ jobs' = [jobs EXCEPT ![procs[p].job] = Deleted]
    /\ Step(p, Finish([procs[p] EXCEPT !.wrote = TRUE], "ok"))
    /\ UNCHANGED <<questions, approvals, History>>

\* ----------------------------------------------- approve_job and reject_job
\* a variant of the guard that only refuses a second approval
AlreadyInStateApprovedOnly(row, target) == row.status = target /\ target = "approved"

\* the guard that refuses a review of a job already in the target state
AlreadyInState(row, target) == row.status = target

ReviewJob(p, u, j, target, why) ==
    /\ CanStart(p)
    /\ Followed(j)
    /\ LET r == [Idle EXCEPT !.op = IF target = "approved" THEN "approve" ELSE "reject",
                             !.user = u, !.job = j, !.reason = why]
           row == jobs[j]
           rd == [r EXCEPT !.status_read = row.status, !.db_version = row.version]
       IN  /\ IF Role(u) \notin {"admin", "hr"} THEN Begin(p, Finish(r, "Forbidden"))
              ELSE IF ~Exists(j) THEN Begin(p, Finish(r, "NotFound"))
              ELSE IF AlreadyInState(row, target) THEN Begin(p, Finish(rd, "Conflict"))
              ELSE Begin(p, [rd EXCEPT !.pc = "rev_write"])
           /\ UNCHANGED <<Store, History>>

ApproveJob(p, u, j) == ReviewJob(p, u, j, "approved", Null)

RejectJob(p, u, j, why) == ReviewJob(p, u, j, "rejected", why)

ReviewWrite(p) ==
    /\ procs[p].pc = "rev_write"
    /\ LET r == procs[p]
           j == r.job
       IN  IF Exists(j)
           THEN /\ jobs' = [jobs EXCEPT ![j] = IF r.op = "approve" THEN ApprovedRow(@, r)
                                               ELSE RejectedRow(@, r)]
                /\ writtenAt' = [writtenAt EXCEPT ![j] = Noted(@, r.db_version)]
                /\ Step(p, [r EXCEPT !.wrote = TRUE, !.new_version = r.db_version + 1,
                                     !.pc = "rev_ar"])
                /\ UNCHANGED <<questions, approvals, wonVersions>>
           ELSE /\ Step(p, [r EXCEPT !.pc = "rev_ar"])
                /\ UNCHANGED <<Store, History>>

ReviewRequests(p) ==
    /\ procs[p].pc = "rev_ar"
    /\ LET r == procs[p]
       IN  /\ approvals' = ReviewPending(approvals, r.job,
                                         IF r.op = "approve" THEN "approved" ELSE "rejected",
                                         r.user, r.reason)
           /\ Step(p, Finish([r EXCEPT !.ar_ins = 0], "ok"))
    /\ UNCHANGED <<jobs, questions, History>>

\* ---------------------------------------------------------------- close_job
\* a variant of the update that also withdraws the approval
ClosedRowClearingApproval(row) == [row EXCEPT !.is_open = FALSE, !.approved_by = Null]

ClosedRow(row) == [row EXCEPT !.is_open = FALSE]

CloseJob(p, u, j) ==
    /\ CanStart(p)
    /\ LET r == [Idle EXCEPT !.op = "close", !.user = u, !.job = j]
       IN  IF Role(u) \notin {"admin", "hr"}
           THEN /\ Begin(p, Finish(r, "Forbidden"))
                /\ UNCHANGED <<Store, History>>
           ELSE IF ~Exists(j)
           THEN /\ Begin(p, Finish(r, "NotFound"))
                /\ UNCHANGED <<Store, History>>
           ELSE /\ jobs' = [jobs EXCEPT ![j] = ClosedRow(@)]
                /\ Begin(p, Finish([r EXCEPT !.wrote = TRUE], "ok"))
                /\ UNCHANGED <<questions, approvals, History>>

\* ------------------------------------------------------------------ get_job
\* a variant of the access check that ignores is_open
HiddenUnlessApproved(row, u) ==
    /\ row.created_by # u /\ Role(u) \notin {"hr", "admin"}
    /\ row.status # "approved"

\* the access check: owner, hr and admin see any job; others only approved+open
Hidden(row, u) ==
    /\ row.created_by # u /\ Role(u) \notin {"hr", "admin"}
    /\ (row.status # "approved" \/ ~row.is_open)

\* the row is fetched and checked in one step; the three reads of the child
\* collections that follow change nothing
GetJob(p, u, j) ==
    /\ CanStart(p)
    /\ LET r == [Idle EXCEPT !.op = "read", !.user = u, !.job = j]
           row == jobs[j]
           rd == [r EXCEPT !.status_read = row.status, !.db_version = row.version,
                           !.open_read = row.is_open]
       IN  IF ~Exists(j) THEN Begin(p, Finish(r, "NotFound"))
           ELSE IF Hidden(row, u) THEN Begin(p, Finish(rd, "NotFound"))
           ELSE Begin(p, Finish(rd, "ok"))
    /\ UNCHANGED <<Store, History>>

\* ------------------------------------------------------------ apply_for_job
\* POST /jobs/{job_id}/apply and POST /applications/{job_id}
Routes == {"jobs", "applications"}

HasApplied(table, j, u) ==
    \E i \in DOMAIN table : table[i].job_id = j /\ table[i].applicant_id = u

NewApplication(j, u) == [job_id |-> j, applicant_id |-> u, status |-> "submitted"]

\* a variant of the job check that ignores is_open
AcceptingWhenApproved(row) == row.status = "approved"

\* the job takes applications
Accepting(row) == ~(row.status # "approved" \/ ~row.is_open)

\* a store without the unique key on (job_id, applicant_id)
NoUniqueViolation(table, row) == FALSE

\* the store refuses a second row for the pair (job_id, applicant_id)
UniqueViolation(table, row) == HasApplied(table, row.job_id, row.applicant_id)

ApplyForJob(p, u, j, route) ==
    /\ CanStart(p)
    /\ LET r == [Idle EXCEPT !.op = "apply", !.user = u, !.job = j, !.route = route]
           row == jobs[j]
           rd == [r EXCEPT !.status_read = row.status, !.open_read = row.is_open]
       IN  IF ~Exists(j) THEN Move(p, Finish(r, "NotFound"))
           ELSE IF ~Accepting(row) THEN Move(p, Finish(rd, "NotAccepting"))
           ELSE Move(p, [rd EXCEPT !.pc = "apply_check"])
    /\ UNCHANGED <<Store, History, Candidate>>

\* a variant of the handler that inserts without the pre-check
ApplyCheckSkipped(p) ==
    /\ procs[p].pc = "apply_check"
    /\ Move(p, [procs[p] EXCEPT !.pc = "apply_insert"])
    /\ UNCHANGED <<Store, History, Candidate>>

\* the pre-check for an application of the same caller to the same job
ApplyCheck(p) ==
    /\ procs[p].pc = "apply_check"
    /\ LET r == procs[p]
       IN  IF HasApplied(applications, r.job, r.user) THEN Move(p, Finish(r, "Conflict"))
           ELSE Move(p, [r EXCEPT !.pc = IF r.route = "applications" THEN "apply_profile"
                                         ELSE "apply_insert"])
    /\ UNCHANGED <<Store, History, Candidate>>

\* /applications/{job_id} reads the candidate's profile before it inserts
ApplyProfile(p) ==
    /\ procs[p].pc = "apply_profile"
    /\ Move(p, [procs[p] EXCEPT !.pc = "apply_insert"])
    /\ UNCHANGED <<Store, History, Candidate>>

\* an insert the store refuses raises and is answered with the generic 500
ApplyInsert(p) ==
    /\ procs[p].pc = "apply_insert"
    /\ LET r == procs[p]
           row == NewApplication(r.job, r.user)
       IN  IF UniqueViolation(applications, row)
           THEN /\ Move(p, Finish(r, "Error"))
                /\ UNCHANGED applications
           ELSE /\ applications' = Append(applications, row)
                /\ Move(p, Finish([r EXCEPT !.wrote = TRUE], "ok"))
    /\ UNCHANGED <<Store, History, responses, tasks>>

\* ------------------------------------------------ submit_technical_assessment
NoScore == -1
PendingAnalysis == "Pending analysis..."

Answer(q, t) == [question_id |-> q, answer |-> t]

\* questions_map: the technical_assessments rows of the job, by id
QuestionsMap(j) == {questions[j][i] : i \in DOMAIN questions[j]}

\* a variant of the filter that keeps every answer
Unfiltered(answers, qmap) == answers

Known(answers, qmap) == SelectSeq(answers, LAMBDA qa : qa.question_id \in qmap)

\* a variant of the first write that stores a zero score
UnscoredRowsZeroed(app, answers, qmap) ==
    LET kept == Known(answers, qmap)
    IN  [i \in DOMAIN kept |->
            [application_id |-> app, question_id |-> kept[i].question_id,
             answer |-> kept[i].answer, ai_score |-> 0,
             ai_reasoning |-> PendingAnalysis]]

UnscoredRows(app, answers, qmap) ==
    LET kept == Known(answers, qmap)
    IN  [i \in DOMAIN kept |->
            [application_id |-> app, question_id |-> kept[i].question_id,
             answer |-> kept[i].answer, ai_score |-> NoScore,
             ai_reasoning |-> PendingAnalysis]]

SameKey(a, b) == a.application_id = b.application_id /\ a.question_id = b.question_id

\* a plain insert of the rows
InsertAll(table, rows) == table \o rows

\* upsert(rows, on_conflict="application_id,question_id"): a row whose key is
\* in the table replaces the columns of that row, any other row is inserted
RECURSIVE Upsert(_, _)
Upsert(table, rows) ==
    IF rows = << >> THEN table
    ELSE LET row == Head(rows)
             merged == IF \E i \in DOMAIN table : SameKey(table[i], row)
                       THEN [i \in DOMAIN table |->
                                IF SameKey(table[i], row) THEN row ELSE table[i]]
                       ELSE Append(table, row)
         IN  Upsert(merged, Tail(rows))

NewTask(app, answers, qmap) ==
    [app |-> app, answers |-> answers, qmap |-> qmap, pc |-> "scheduled",
     replies |-> << >>, updates |-> << >>]

\* the model follows MaxSubmissions submissions that get as far as the store
CanSubmit ==
    Len(tasks) + Cardinality({p \in DOMAIN procs : procs[p].op = "submit"}) < MaxSubmissions

\* the handler's "except Exception" also catches the HTTPException raised
\* inside its try block: whatever was raised leaves as the generic 500
SubmitFailure(raised) == "Error"

SubmitAssessment(p, u, a, answers) ==
    /\ CanStart(p)
    /\ CanSubmit
    /\ LET r == [Idle EXCEPT !.op = "submit", !.user = u, !.app = a, !.answers = answers]
       IN  IF a \notin DOMAIN applications
           THEN Move(p, Finish(r, SubmitFailure("NotFound")))
           ELSE IF applications[a].applicant_id # u
           THEN Move(p, Finish(r, SubmitFailure("Forbidden")))
           ELSE Move(p, [r EXCEPT !.job = applications[a].job_id, !.pc = "sub_questions"])
    /\ UNCHANGED <<Store, History, Candidate>>

\* the questions are read; without a retained answer the handler returns here
SubmitQuestions(p) ==
    /\ procs[p].pc = "sub_questions"
    /\ LET r == procs[p]
           qmap == QuestionsMap(r.job)
           rq == [r EXCEPT !.qmap = qmap]
       IN  IF qmap = {}
           THEN /\ Move(p, Finish(r, SubmitFailure("BadRequest")))
                /\ UNCHANGED tasks
           ELSE IF UnscoredRows(r.app, r.answers, qmap) # << >>
           THEN /\ Move(p, [rq EXCEPT !.pc = "sub_upsert"])
                /\ UNCHANGED tasks
           ELSE /\ tasks' = Append(tasks, NewTask(r.app, r.answers, qmap))
                /\ Move(p, Finish(rq, "ok"))
    /\ UNCHANGED <<Store, History, applications, responses>>

\* the unscored rows are stored, the scoring run is scheduled, the handler returns
SubmitUpsert(p) ==
    /\ procs[p].pc = "sub_upsert"
    /\ LET r == procs[p]
       IN  /\ responses' = Upsert(responses, UnscoredRows(r.app, r.answers, r.qmap))
           /\ tasks' = Append(tasks, NewTask(r.app, r.answers, r.qmap))
           /\ Move(p, Finish([r EXCEPT !.wrote = TRUE], "ok"))
    /\ UNCHANGED <<Store, History, applications>>

\* ------------------------------------------------- update_application_status
Statuses == {"reviewing", "shortlisted", "rejected", "hired"}

\* the 404 is raised inside the try block, whose only handler is
\* "except Exception": it leaves as the generic 500
StatusFailure(raised) == "Error"

UpdateApplicationStatus(p, u, a, st) ==
    /\ CanStart(p)
    /\ LET r == [Idle EXCEPT !.op = "status", !.user = u, !.app = a]
       IN  IF Role(u) \notin {"admin", "hr"}
           THEN /\ Move(p, Finish(r, "Forbidden"))
                /\ UNCHANGED applications
           ELSE IF a \notin DOMAIN applications
           THEN /\ Move(p, Finish(r, StatusFailure("NotFound")))
                /\ UNCHANGED applications
           ELSE /\ applications' = [applications EXCEPT ![a].status = st]
                /\ Move(p, Finish([r EXCEPT !.job = applications[a].job_id,
                                            !.wrote = TRUE], "ok"))
    /\ UNCHANGED <<Store, History, responses, tasks>>

\* ------------------------------------------------------------ run_ai_scoring
AnalysisFailed == "Analysis failed"
EvaluationError == "Error during AI evaluation"
NoReasoning == "No reasoning provided."

Reply(kind, score, reasoning) == [kind |-> kind, score |-> score, reasoning |-> reasoning]

\* what one call of the chat completion can do: raise (timeout, service
\* unavailable, content that is no JSON), or hand back a JSON object with a
\* score and a reasoning, with a score outside 0..10, or without a score
\* a JSON object whose score key is there and holds null: result.get("score", 0)
\* hands the null on, and it is stored as the null of the column
JsonNull == -2
CallRaises == Reply("raise", NoScore, Null)
Replies == {Reply("json", 7, "good"), CallRaises,
            Reply("json", 11, "great"), Reply("json", NoScore, "unsure")}
RacingReplies == {Reply("json", 7, "good"), CallRaises}

\* evaluate_answer: the keys of the JSON object with their defaults; every
\* exception is caught and turned into a zero score, so the call never raises
EvaluateAnswer(reply) ==
    IF reply.kind = "raise"
    THEN [raised |-> FALSE, score |-> 0, reasoning |-> EvaluationError]
    ELSE [raised |-> FALSE,
          score |-> IF reply.score = NoScore THEN 0
                    ELSE IF reply.score = JsonNull THEN NoScore
                    ELSE reply.score,
          reasoning |-> IF reply.reasoning = Null THEN NoReasoning ELSE reply.reasoning]

\* process_single_answer: the evaluation as it came back, or the fallback of
\* the except branch
ProcessSingleAnswer(evaluation) ==
    IF evaluation.raised THEN [score |-> 0, reasoning |-> AnalysisFailed]
    ELSE [score |-> evaluation.score, reasoning |-> evaluation.reasoning]

\* a variant of the run in which one failed call zeroes the whole batch
ScoredRowsAllOrNothing(app, answers, qmap, replies) ==
    LET kept == Known(answers, qmap)
        failed == \E i \in DOMAIN replies : replies[i].kind = "raise"
    IN  [i \in DOMAIN kept |->
            LET result == ProcessSingleAnswer(EvaluateAnswer(replies[i]))
            IN  [application_id |-> app, question_id |-> kept[i].question_id,
                 answer |-> kept[i].answer,
                 ai_score |-> IF failed THEN 0 ELSE result.score,
                 ai_reasoning |-> IF failed THEN EvaluationError ELSE result.reasoning]]

\* valid_updates: one row per known answer, with the answer of this batch
ScoredRows(app, answers, qmap, replies) ==
    LET kept == Known(answers, qmap)
    IN  [i \in DOMAIN kept |->
            LET result == ProcessSingleAnswer(EvaluateAnswer(replies[i]))
            IN  [application_id |-> app, question_id |-> kept[i].question_id,
                 answer |-> kept[i].answer, ai_score |-> result.score,
                 ai_reasoning |-> result.reasoning]]

\* the answers are evaluated; evaluate_answer never suspends, so the gather
\* runs to its end in one step
RunScoring(t, callReplies) ==
    /\ t \in DOMAIN tasks
    /\ tasks[t].pc = "scheduled"
    /\ LET k == tasks[t]
           kept == Known(k.answers, k.qmap)
       IN  \E replies \in [DOMAIN kept -> callReplies] :
              tasks' = [tasks EXCEPT ![t] =
                          IF kept = << >> THEN [k EXCEPT !.pc = "done"]
                          ELSE [k EXCEPT !.pc = "score_upsert",
                                         !.replies = replies,
                                         !.updates = ScoredRows(k.app, k.answers, k.qmap,
                                                                replies)]]
    /\ UNCHANGED <<Store, History, procs, last, script, applications, responses>>

\* a variant of the write that stores the score and the reasoning only and
\* leaves the answer of a row that is there as it is
ScoreUpsertKeepingAnswer(t) ==
    /\ t \in DOMAIN tasks
    /\ tasks[t].pc = "score_upsert"
    /\ responses' =
          Upsert(responses,
                 [i \in DOMAIN tasks[t].updates |->
                     LET row == tasks[t].updates[i]
                         there == {k \in DOMAIN responses : SameKey(responses[k], row)}
                     IN  IF there = {} THEN row
                         ELSE [row EXCEPT !.answer = responses[CHOOSE k \in there : TRUE].answer]])
    /\ tasks' = [tasks EXCEPT ![t].pc = "done"]
    /\ UNCHANGED <<Store, History, procs, last, script, applications>>

ScoreUpsert(t) ==
    /\ t \in DOMAIN tasks
    /\ tasks[t].pc = "score_upsert"
    /\ responses' = Upsert(responses, tasks[t].updates)
    /\ tasks' = [tasks EXCEPT ![t].pc = "done"]
    /\ UNCHANGED <<Store, History, procs, last, script, applications>>

\* a variant in which the store error of the run reaches the submit response
ScoreUpsertFailsLoudly(t) ==
    /\ t \in DOMAIN tasks
    /\ tasks[t].pc = "score_upsert"
    /\ tasks' = [tasks EXCEPT ![t].pc = "failed"]
    /\ last' = [last EXCEPT !.outcome = "Error"]
    /\ UNCHANGED <<Store, History, procs, script, applications, responses>>

\* the store call of the run fails: the exception ends the background task,
\* after the response of the submission was sent
ScoreUpsertFails(t) ==
    /\ t \in DOMAIN tasks
    /\ tasks[t].pc = "score_upsert"
    /\ tasks' = [tasks EXCEPT ![t].pc = "failed"]
    /\ UNCHANGED <<Store, History, procs, last, script, applications, responses>>

\* ------------------------------------------------------------ specification
Authors == {"emp"}
Editors == {"emp"}
Reviewers == {"hr"}

\* a client sends the version it has just fetched, or none
FreshVersions(j) == {NoVersion, jobs[j].version}
RacingTitles == PatchTitles \ {Null}
RacingQuestions == {NoList}
RacingCreateQuestions == {<<"q1">>}

\* concurrent handlers, interleaved at their store steps
Next ==
    \/ \E p \in Procs, u \in Authors, t \in CreateTitles, qs \in RacingCreateQuestions :
          CreateJob(p, u, t, qs)
    \/ \E p \in Procs : CreateInsertQuestions(p)
    \/ \E p \in Procs : CreateInsertApproval(p)
    \/ \E p \in Procs, u \in Editors, j \in JobIds : \E cv \in FreshVersions(j),
          pt \in RacingTitles, pqv \in RacingQuestions : UpdateJob(p, u, j, cv, pt, pqv)
    \/ \E p \in Procs : UpdateWrite(p)
    \/ \E p \in Procs : UpdateCheck(p)
    \/ \E p \in Procs : UpdateInsertApproval(p)
    \/ \E p \in Procs, u \in Reviewers, j \in JobIds : ApproveJob(p, u, j)
    \/ \E p \in Procs, u \in Reviewers, j \in JobIds, why \in Reasons : RejectJob(p, u, j, why)
    \/ \E p \in Procs : ReviewWrite(p)
    \/ \E p \in Procs : ReviewRequests(p)
    \/ \E p \in Procs, u \in Reviewers, j \in JobIds : CloseJob(p, u, j)

Spec == Init /\ [][Next]_vars

\* one request at a time, every caller and every patch
Single == {1}

NextSeq ==
    \/ \E p \in Single, u \in Users, t \in CreateTitles, qs \in CreateQuestions :
          CreateJob(p, u, t, qs)
    \/ \E p \in Single : CreateInsertQuestions(p)
    \/ \E p \in Single : CreateInsertApproval(p)
    \/ \E p \in Single, u \in Users, j \in JobIds, cv \in PatchVersions,
          pt \in PatchTitles, pqv \in PatchQuestions : UpdateJob(p, u, j, cv, pt, pqv)
    \/ \E p \in Single : UpdateWrite(p)
    \/ \E p \in Single : UpdateInsertApproval(p)
    \/ \E p \in Single : UpdateDeleteQuestions(p)
    \/ \E p \in Single : UpdateInsertQuestions(p)
    \/ \E p \in Single, u \in Users, j \in JobIds : ApproveJob(p, u, j)
    \/ \E p \in Single, u \in Users, j \in JobIds, why \in Reasons : RejectJob(p, u, j, why)
    \/ \E p \in Single : ReviewWrite(p)
    \/ \E p \in Single : ReviewRequests(p)
    \/ \E p \in Single, u \in Users, j \in JobIds : CloseJob(p, u, j)
    \/ \E p \in Single, u \in Users, j \in JobIds : GetJob(p, u, j)

\* the sequential runs start on the scenario
InitSeq ==
    /\ jobs = [j \in JobIds |-> NoJob]
    /\ questions = [j \in JobIds |-> << >>]
    /\ approvals = << >>
    /\ procs = [p \in Procs |-> Idle]
    /\ last = Idle
    /\ writtenAt = [j \in JobIds |-> {}]
    /\ wonVersions = [j \in JobIds |-> {}]
    /\ script = "start"
    /\ applications = << >>
    /\ responses = << >>
    /\ tasks = << >>

SpecSeq == InitSeq /\ [][NextSeq]_vars

\* three concurrent handlers, for the races that need a third party
Racers == 1 .. (NumProcs + 1)

InitRace ==
    /\ jobs = [j \in JobIds |-> NoJob]
    /\ questions = [j \in JobIds |-> << >>]
    /\ approvals = << >>
    /\ procs = [p \in Racers |-> Idle]
    /\ last = Idle
    /\ writtenAt = [j \in JobIds |-> {}]
    /\ wonVersions = [j \in JobIds |-> {}]
    /\ script = "off"
    /\ applications = << >>
    /\ responses = << >>
    /\ tasks = << >>

NextRace ==
    \/ \E p \in Racers, u \in Authors, t \in CreateTitles, qs \in RacingCreateQuestions :
          CreateJob(p, u, t, qs)
    \/ \E p \in Racers : CreateInsertQuestions(p)
    \/ \E p \in Racers : CreateInsertApproval(p)
    \/ \E p \in Racers, u \in Editors, j \in JobIds : \E cv \in FreshVersions(j),
          pt \in RacingTitles, pqv \in RacingQuestions : UpdateJob(p, u, j, cv, pt, pqv)
    \/ \E p \in Racers : UpdateWrite(p)
    \/ \E p \in Racers : UpdateCheck(p)
    \/ \E p \in Racers : UpdateInsertApproval(p)
    \/ \E p \in Racers, u \in Reviewers, j \in JobIds : ApproveJob(p, u, j)
    \/ \E p \in Racers, u \in Reviewers, j \in JobIds, why \in Reasons : RejectJob(p, u, j, why)
    \/ \E p \in Racers : ReviewWrite(p)
    \/ \E p \in Racers : ReviewRequests(p)

SpecRace == InitRace /\ [][NextRace]_vars

\* applications to a job that was created, while it is reviewed and closed
Applicants == {"cand", "cand2"}
RacingApplicants == {"cand"}

CreatedBy(u, t) ==
    Finish([Idle EXCEPT !.op = "create", !.user = u, !.ptitle = t, !.pq = Some(<< >>),
                        !.job = 1, !.wrote = TRUE, !.new_version = 1, !.ar_ins = 1], "ok")

InitApply ==
    /\ jobs = [j \in JobIds |-> NewJobRow("emp", "t1")]
    /\ questions = [j \in JobIds |-> << >>]
    /\ approvals = <<NewApproval(1, "emp", Null)>>
    /\ procs = [p \in Procs |-> Idle]
    /\ last = CreatedBy("emp", "t1")
    /\ writtenAt = [j \in JobIds |-> {}]
    /\ wonVersions = [j \in JobIds |-> {}]
    /\ script = "off"
    /\ applications = << >>
    /\ responses = << >>
    /\ tasks = << >>

\* one request at a time
NextApply ==
    \/ \E p \in Single, u \in Reviewers, j \in JobIds : ApproveJob(p, u, j)
    \/ \E p \in Single, u \in Reviewers, j \in JobIds, why \in Reasons : RejectJob(p, u, j, why)
    \/ \E p \in Single : ReviewWrite(p)
    \/ \E p \in Single : ReviewRequests(p)
    \/ \E p \in Single, u \in Reviewers, j \in JobIds : CloseJob(p, u, j)
    \/ \E p \in Single, u \in Applicants, j \in JobIds, route \in Routes :
          ApplyForJob(p, u, j, route)
    \/ \E p \in Single : ApplyCheck(p)
    \/ \E p \in Single : ApplyProfile(p)
    \/ \E p \in Single : ApplyInsert(p)

SpecApply == InitApply /\ [][NextApply]_vars

\* concurrent requests
NextApplyRace ==
    \/ \E p \in Procs, u \in Reviewers, j \in JobIds : ApproveJob(p, u, j)
    \/ \E p \in Procs, u \in Reviewers, j \in JobIds, why \in Reasons : RejectJob(p, u, j, why)
    \/ \E p \in Procs : ReviewWrite(p)
    \/ \E p \in Procs : ReviewRequests(p)
    \/ \E p \in Procs, u \in Reviewers, j \in JobIds : CloseJob(p, u, j)
    \/ \E p \in Procs, u \in RacingApplicants, j \in JobIds, route \in Routes :
          ApplyForJob(p, u, j, route)
    \/ \E p \in Procs : ApplyCheck(p)
    \/ \E p \in Procs : ApplyProfile(p)
    \/ \E p \in Procs : ApplyInsert(p)

SpecApplyRace == InitApply /\ [][NextApplyRace]_vars

\* a job whose creator was an employee and has since been given the role hr
\* (PATCH /users/{user_id}/role); one request at a time
Promoted == "hr"

InitPromoted ==
    /\ jobs = [j \in JobIds |-> NewJobRow(Promoted, "t1")]
    /\ questions = [j \in JobIds |-> << >>]
    /\ approvals = <<NewApproval(1, Promoted, Null)>>
    /\ procs = [p \in Procs |-> Idle]
    /\ last = CreatedBy(Promoted, "t1")
    /\ writtenAt = [j \in JobIds |-> {}]
    /\ wonVersions = [j \in JobIds |-> {}]
    /\ script = "off"
    /\ applications = << >>
    /\ responses = << >>
    /\ tasks = << >>

NextPromoted ==
    \/ \E p \in Single, u \in Users, j \in JobIds, cv \in PatchVersions,
          pt \in PatchTitles, pqv \in PatchQuestions : UpdateJob(p, u, j, cv, pt, pqv)
    \/ \E p \in Single : UpdateWrite(p)
    \/ \E p \in Single : UpdateInsertApproval(p)
    \/ \E p \in Single : UpdateDeleteQuestions(p)
    \/ \E p \in Single : UpdateInsertQuestions(p)
    \/ \E p \in Single, u \in Users, j \in JobIds : ApproveJob(p, u, j)
    \/ \E p \in Single : ReviewWrite(p)
    \/ \E p \in Single : ReviewRequests(p)

SpecPromoted == InitPromoted /\ [][NextPromoted]_vars

\* concurrent edits and reviews of a job that was created; the edits carry no
\* expected version, so every one of them writes
Unversioned == {NoVersion}
AuditTitles == {"t2"}

NextAudit ==
    \/ \E p \in Procs, u \in Editors, j \in JobIds, cv \in Unversioned,
          pt \in AuditTitles, pqv \in RacingQuestions : UpdateJob(p, u, j, cv, pt, pqv)
    \/ \E p \in Procs : UpdateWrite(p)
    \/ \E p \in Procs : UpdateInsertApproval(p)
    \/ \E p \in Procs, u \in Reviewers, j \in JobIds : ApproveJob(p, u, j)
    \/ \E p \in Procs, u \in Reviewers, j \in JobIds, why \in Reasons : RejectJob(p, u, j, why)
    \/ \E p \in Procs : ReviewWrite(p)
    \/ \E p \in Procs : ReviewRequests(p)

\* the job as create_job leaves it; the run keeps no history
InitAudit ==
    /\ jobs = [j \in JobIds |-> NewJobRow("emp", "t1")]
    /\ questions = [j \in JobIds |-> << >>]
    /\ approvals = <<NewApproval(1, "emp", Null)>>
    /\ procs = [p \in Procs |-> Idle]
    /\ last = Idle
    /\ writtenAt = [j \in JobIds |-> {}]
    /\ wonVersions = [j \in JobIds |-> {}]
    /\ script = "mute"
    /\ applications = << >>
    /\ responses = << >>
    /\ tasks = << >>

SpecAudit == InitAudit /\ [][NextAudit]_vars

\* concurrent edits through both routes, and approvals, of a job that was
\* created
EmployeeQuestions == {NoList, Some(<<"q2">>)}

NextEmployee ==
    \/ \E p \in Procs, u \in Editors, j \in JobIds : \E cv \in FreshVersions(j),
          pt \in RacingTitles, pqv \in EmployeeQuestions :
          UpdateEmployeeJob(p, u, j, cv, pt, pqv)
    \/ \E p \in Procs : EmployeeWrite(p)
    \/ \E p \in Procs : EmployeeDeleteQuestions(p)
    \/ \E p \in Procs : EmployeeInsertQuestions(p)
    \/ \E p \in Procs : EmployeeInsertApproval(p)
    \/ \E p \in Procs : EmployeeRead(p)
    \/ \E p \in Procs, u \in Editors, j \in JobIds : \E cv \in FreshVersions(j),
          pt \in RacingTitles, pqv \in RacingQuestions : UpdateJob(p, u, j, cv, pt, pqv)
    \/ \E p \in Procs : UpdateWrite(p)
    \/ \E p \in Procs : UpdateCheck(p)
    \/ \E p \in Procs : UpdateInsertApproval(p)
    \/ \E p \in Procs, u \in Reviewers, j \in JobIds : ApproveJob(p, u, j)
    \/ \E p \in Procs : ReviewWrite(p)
    \/ \E p \in Procs : ReviewRequests(p)

SpecEmployee == InitApply /\ [][NextEmployee]_vars

\* concurrent edits and deletes of a job that was created and is pending
NextDelete ==
    \/ \E p \in Procs, u \in Editors, j \in JobIds : \E cv \in FreshVersions(j),
          pt \in RacingTitles, pqv \in RacingQuestions : UpdateJob(p, u, j, cv, pt, pqv)
    \/ \E p \in Procs : UpdateWrite(p)
    \/ \E p \in Procs : UpdateCheck(p)
    \/ \E p \in Procs, u \in Editors, j \in JobIds : DeleteJob(p, u, j)
    \/ \E p \in Procs : DeleteWrite(p)

SpecDelete == InitApply /\ [][NextDelete]_vars

\* submissions for the application of cand to an approved job with two
\* questions, and their scoring runs
Texts == {"a1", "a2"}
AnswerIds == {"q1", "q2", "qx"}
Batches ==
    {<< >>} \cup {<<Answer(q, t)>> : q \in AnswerIds, t \in Texts}
            \cup {<<Answer("q1", t), Answer("q2", t)>> : t \in Texts}
TaskIds == 1 .. MaxSubmissions
AppIds == {1}

AppliedBy(u, j) ==
    Finish([Idle EXCEPT !.op = "apply", !.user = u, !.job = j, !.route = "applications",
                        !.status_read = "approved", !.open_read = TRUE, !.wrote = TRUE], "ok")

InitScore ==
    /\ jobs = [j \in JobIds |->
                  ApprovedRow(NewJobRow("emp", "t1"), [user |-> "hr", db_version |-> 1])]
    /\ questions = [j \in JobIds |-> <<"q1", "q2">>]
    /\ approvals = ReviewPending(<<NewApproval(1, "emp", Null)>>, 1, "approved", "hr", Null)
    /\ procs = [p \in Procs |-> Idle]
    /\ last = AppliedBy("cand", 1)
    /\ writtenAt = [j \in JobIds |-> {1}]
    /\ wonVersions = [j \in JobIds |-> {}]
    /\ script = "off"
    /\ applications = <<NewApplication(1, "cand")>>
    /\ responses = << >>
    /\ tasks = << >>

NextScore ==
    \/ \E p \in Procs, u \in Applicants, a \in AppIds, answers \in Batches :
          SubmitAssessment(p, u, a, answers)
    \/ \E p \in Procs : SubmitQuestions(p)
    \/ \E p \in Procs : SubmitUpsert(p)
    \/ \E t \in TaskIds : RunScoring(t, RacingReplies)
    \/ \E t \in TaskIds : ScoreUpsert(t)

SpecScore == InitScore /\ [][NextScore]_vars

\* status updates and submissions, one request at a time, for the application
\* that exists and for one that does not
StatusUsers == {"hr", "cand"}
AnyAppIds == {1, 2}
StatusBatches == {<< >>, <<Answer("q1", "a1")>>, <<Answer("qx", "a1")>>}

NextStatus ==
    \/ \E p \in Single, u \in StatusUsers, a \in AnyAppIds, st \in Statuses :
          UpdateApplicationStatus(p, u, a, st)
    \/ \E p \in Single, u \in Applicants, a \in AnyAppIds, answers \in StatusBatches :
          SubmitAssessment(p, u, a, answers)
    \/ \E p \in Single : SubmitQuestions(p)
    \/ \E p \in Single : SubmitUpsert(p)
    \/ \E t \in TaskIds : RunScoring(t, RacingReplies)
    \/ \E t \in TaskIds : ScoreUpsert(t)

SpecStatus == InitScore /\ [][NextStatus]_vars

\* one submission at a time, each returned before the next is sent; the
\* scoring runs they leave behind run concurrently
NextResubmit ==
    \/ \E p \in Single, u \in Applicants, a \in AppIds, answers \in Batches :
          SubmitAssessment(p, u, a, answers)
    \/ \E p \in Single : SubmitQuestions(p)
    \/ \E p \in Single : SubmitUpsert(p)
    \/ \E t \in TaskIds : RunScoring(t, RacingReplies)
    \/ \E t \in TaskIds : ScoreUpsert(t)

SpecResubmit == InitScore /\ [][NextResubmit]_vars

\* one submission at a time, with every reply of the scorer and a store that
\* can fail under the scoring run
GradedText == "a1"
GradedBatches ==
    {<<Answer("q1", GradedText)>>, <<Answer("qx", GradedText)>>,
     <<Answer("q1", GradedText), Answer("q2", GradedText)>>,
     <<Answer("qx", GradedText), Answer("q1", GradedText)>>}

NextGrade ==
    \/ \E p \in Single, u \in Applicants, a \in AppIds, answers \in GradedBatches :
          SubmitAssessment(p, u, a, answers)
    \/ \E p \in Single : SubmitQuestions(p)
    \/ \E p \in Single : SubmitUpsert(p)
    \/ \E t \in TaskIds : RunScoring(t, Replies)
    \/ \E t \in TaskIds : ScoreUpsert(t)
    \/ \E t \in TaskIds : ScoreUpsertFails(t)

SpecGrade == InitScore /\ [][NextGrade]_vars

\* submissions one at a time and their scoring runs; every run is scheduled,
\* every call of the model answers and every store call succeeds
LiveReplies == {Reply("json", 7, "good"), CallRaises, Reply("json", JsonNull, "unsure")}

NextLive ==
    \/ \E p \in Single, u \in RacingApplicants, a \in AppIds, answers \in GradedBatches :
          SubmitAssessment(p, u, a, answers)
    \/ \E p \in Single : SubmitQuestions(p)
    \/ \E p \in Single : SubmitUpsert(p)
    \/ \E t \in TaskIds : RunScoring(t, LiveReplies)
    \/ \E t \in TaskIds : ScoreUpsert(t)

FairScoring ==
    \A t \in TaskIds : WF_vars(RunScoring(t, LiveReplies)) /\ WF_vars(ScoreUpsert(t))

SpecLive == InitScore /\ [][NextLive]_vars /\ FairScoring

\* --------------------------------------------------------------- properties
TypeOK ==
    /\ \A j \in JobIds : jobs[j].status \in {Null, "pending", "approved", "rejected"}
    /\ \A j \in JobIds : jobs[j].version \in 0 .. (MaxVersion + 1)

Slots == DOMAIN procs

\* the step in which handler p's update of the job row takes effect
EditWrites(p) ==
    /\ procs[p].pc = "upd_write"
    /\ procs'[p] # procs[p]
    /\ procs'[p].pc # "upd_check"

ReviewWrites(p) ==
    /\ procs[p].pc = "rev_write"
    /\ procs'[p].wrote

EditReturned(res) == last.op = "edit" /\ last.outcome = res

\* the patch of the request that returned last supplied at least one field
PatchSupplied == last.ptitle # Null \/ last.pq # NoList

\* C1: for every job, at most one approval request is pending, in every
\* reachable state of every interleaving of create, edit, approve and reject.
C1_AtMostOnePending == \A j \in JobIds : PendingCount(j) <= 1

\* C2: an edit that succeeds with expected_version v moves the stored version
\* from v to v+1, and no earlier edit of the job succeeded with the same v.
C2_VersionCounterSerializable ==
    [][\A p \in Slots :
          (EditWrites(p) /\ procs[p].cv # NoVersion) =>
             /\ jobs[procs[p].job].version = procs[p].cv
             /\ jobs'[procs[p].job].version = procs[p].cv + 1
             /\ procs[p].cv \notin wonVersions[procs[p].job]]_vars

\* C3: of two edits of one job that are in flight together with the same
\* expected_version, at most one gets its write applied.
C3_OneWinnerPerExpectedVersion ==
    \A p, q \in Slots :
        (/\ p # q
         /\ procs[p].op = "edit" /\ procs[q].op = "edit"
         /\ procs[p].job = procs[q].job
         /\ procs[p].cv # NoVersion /\ procs[p].cv = procs[q].cv)
        => ~(procs[p].wrote /\ procs[q].wrote)

\* C4: for each version v of a job, at most one edit, approve or reject that
\* read version v gets to write the job row.
C4_OneWriterPerVersion ==
    [][\A p \in Slots :
          (EditWrites(p) \/ ReviewWrites(p)) =>
             procs[p].db_version \notin writtenAt[procs[p].job]]_vars

\* C5: an authorised edit of an existing job whose expected_version differs
\* from the stored version returns Conflict and writes nothing, whatever the
\* (non-empty) patch holds.
C5_MismatchIsConflict ==
    (/\ last.op = "edit"
     /\ last.status_read # Null
     /\ PatchSupplied
     /\ last.cv # NoVersion
     /\ last.cv # last.db_version)
    => (last.outcome = "Conflict" /\ ~last.wrote /\ last.ar_ins = 0)

\* C6: the version of a job is at least 1 and no step ever lowers it.
C6_VersionMonotonic ==
    [][\A j \in JobIds :
          /\ Exists(j) => jobs[j].version >= 1
          /\ jobs'[j].version >= jobs[j].version]_vars

\* C7: every edit that returns successfully has stored the version it read
\* plus one, for every non-empty patch, also one that supplies only a child
\* collection.
C7_EditIncrementsVersion ==
    (EditReturned("ok") /\ PatchSupplied) =>
        (last.wrote /\ last.new_version = last.db_version + 1)

\* C8: a successful edit of an approved job resets it to pending, clears
\* approved_by/approved_at and inserts exactly one pending approval request
\* with the re-approval reason; a successful edit of a pending or rejected job
\* inserts none.
C8_EditResetsApproval ==
    /\ []((EditReturned("ok") /\ PatchSupplied) =>
             IF last.status_read = "approved"
             THEN last.wrote /\ last.ar_ins = 1
             ELSE last.ar_ins = 0)
    /\ [][\A p \in Slots :
             /\ (EditWrites(p) /\ procs[p].status_read = "approved") =>
                   /\ jobs'[procs[p].job].status = "pending"
                   /\ jobs'[procs[p].job].approved_by = Null
                   /\ jobs'[procs[p].job].approved_at = Null
             /\ (procs[p].pc = "upd_ar" /\ procs'[p] # procs[p]) =>
                   /\ Len(approvals') = Len(approvals) + 1
                   /\ approvals'[Len(approvals')].status = "pending"
                   /\ approvals'[Len(approvals')].reason = ReapprovalReason]_vars

AllowedTransitions ==
    {<<"pending", "approved">>, <<"pending", "rejected">>,
     <<"approved", "pending">>, <<"rejected", "pending">>}

\* C9: every change of a job's status is pending->approved, pending->rejected,
\* approved->pending or rejected->pending.
C9_StatusTransitions ==
    [][\A j \in JobIds :
          (Exists(j) /\ jobs'[j].status # jobs[j].status) =>
             <<jobs[j].status, jobs'[j].status>> \in AllowedTransitions]_vars

\* C10 as stated: the write of an edit that found the job rejected moves the
\* status to pending.
C10_RejectedEditGoesPending ==
    [][\A p \in Slots :
          (EditWrites(p) /\ procs[p].status_read = "rejected") =>
             jobs'[procs[p].job].status = "pending"]_vars

\* C10 amended: no step of an edit that found the job rejected changes the
\* job's status; the job stays rejected.
C10_RejectedEditKeepsStatus ==
    [][\A p \in Slots :
          (/\ procs'[p] # procs[p]
           /\ procs[p].op = "edit"
           /\ procs[p].status_read = "rejected") =>
             jobs'[procs[p].job].status = jobs[procs[p].job].status]_vars

C10_Witness ==
    /\ EditReturned("ok")
    /\ last.status_read = "rejected"
    /\ last.wrote
    /\ jobs[last.job].status = "rejected"
    /\ jobs[last.job].title = last.ptitle
    /\ jobs[last.job].version = last.new_version

AllIdle == \A p \in Slots : procs[p].pc = "idle"

\* the step is a call that returns at once, without a store write of its own
ReturnsAtOnce == last' # last /\ procs' = procs

Target(op) == IF op = "approve" THEN "approved" ELSE "rejected"

\* C11: every successful approve (reject) sets the status, stamps approved_by
\* and approved_at (rejection_reason), increments the version by one and moves
\* exactly one approval request of the job from pending to the matching status
\* with reviewed_by the caller.
C11_ReviewEffects ==
    [][\A p \in Slots :
          /\ ReviewWrites(p) =>
                LET j == procs[p].job
                IN  /\ jobs'[j].status = Target(procs[p].op)
                    /\ jobs'[j].version = jobs[j].version + 1
                    /\ IF procs[p].op = "approve"
                       THEN jobs'[j].approved_by = procs[p].user /\ jobs'[j].approved_at # Null
                       ELSE jobs'[j].rejection_reason = procs[p].reason
          /\ (procs[p].pc = "rev_ar" /\ procs'[p] # procs[p]) =>
                Cardinality({i \in DOMAIN approvals :
                                /\ approvals[i].job_id = procs[p].job
                                /\ approvals[i].status = "pending"
                                /\ approvals'[i].status = Target(procs[p].op)
                                /\ approvals'[i].reviewed_by = procs[p].user}) = 1]_vars

\* C12: approve of an approved job and reject of a rejected job return
\* Conflict and leave the job row, its version and every approval request
\* unchanged.
C12_AlreadyInTargetIsConflict ==
    [][/\ (/\ ReturnsAtOnce
           /\ last'.op \in {"approve", "reject"}
           /\ Role(last'.user) \in {"hr", "admin"}
           /\ Exists(last'.job)
           /\ jobs[last'.job].status = Target(last'.op))
          => (last'.outcome = "Conflict" /\ UNCHANGED Store)
       /\ \A p \in Slots :
             (procs[p].pc = "idle" /\ procs'[p].op \in {"approve", "reject"}) =>
                jobs[procs'[p].job].status # Target(procs'[p].op)]_vars

C12_Witness ==
    /\ last.op = "reject"
    /\ last.outcome = "Conflict"
    /\ last.status_read = "rejected"
    /\ jobs[last.job].status = "rejected"
    /\ AllIdle

\* C13: a create by an employee or admin leaves a new job with status pending,
\* version 1, is_open true and exactly one approval request, pending, for it; a
\* create by any other role is refused with Forbidden and inserts nothing.
C13_CreateEffects ==
    [][/\ \A p \in Slots :
             (procs[p].pc = "create_ar" /\ procs'[p] # procs[p]) =>
                LET j == procs[p].job
                    n == Len(approvals')
                IN  /\ Role(procs[p].user) \in {"employee", "admin"}
                    /\ last'.outcome = "ok"
                    /\ jobs'[j].status = "pending"
                    /\ jobs'[j].version = 1
                    /\ jobs'[j].is_open
                    /\ n = Len(approvals) + 1
                    /\ {i \in DOMAIN approvals' : approvals'[i].job_id = j} = {n}
                    /\ approvals'[n].status = "pending"
       /\ (/\ last' # last
           /\ last'.op = "create"
           /\ Role(last'.user) \notin {"employee", "admin"})
          => (last'.outcome = "Forbidden" /\ UNCHANGED Store)]_vars

C13_Witness ==
    /\ last.op = "create"
    /\ last.outcome = "ok"
    /\ AllIdle
    /\ jobs[last.job].status = "pending"
    /\ jobs[last.job].version = 1
    /\ jobs[last.job].is_open
    /\ PendingCount(last.job) = 1

\* C14: run one after the other, create, approve, edit(title), approve leave
\* the job at (version 1, pending), (2, approved), (3, pending), (4, approved);
\* after the edit a new approval request is pending while the first one is
\* approved, and after the last approve none is pending.
C14_Scenario ==
    AllIdle =>
       /\ script = "created" => jobs[last.job].version = 1 /\ jobs[last.job].status = "pending"
       /\ script = "approved" => jobs[last.job].version = 2 /\ jobs[last.job].status = "approved"
       /\ script = "edited" =>
             /\ jobs[last.job].version = 3
             /\ jobs[last.job].status = "pending"
             /\ Len(approvals) = 2
             /\ approvals[1].status = "approved"
             /\ approvals[2].status = "pending"
             /\ approvals[2].job_id = last.job
       /\ script = "reapproved" =>
             /\ jobs[last.job].version = 4
             /\ jobs[last.job].status = "approved"
             /\ PendingCount(last.job) = 0

C14_Witness ==
    /\ AllIdle
    /\ script = "reapproved"
    /\ jobs[last.job].version = 4
    /\ jobs[last.job].status = "approved"
    /\ Len(approvals) = 2

\* C15: a read of an existing job returns it when the caller is its creator or
\* has role hr or admin, or when the job is approved and open; every other read
\* returns NotFound, never Forbidden.
C15_ReadVisibility ==
    [][\A j \in JobIds :
          (last' # last /\ last'.op = "read" /\ last'.job = j /\ Exists(j)) =>
             last'.outcome =
                IF \/ jobs[j].created_by = last'.user
                   \/ Role(last'.user) \in {"hr", "admin"}
                   \/ (jobs[j].status = "approved" /\ jobs[j].is_open)
                THEN "ok" ELSE "NotFound"]_vars

C15_Witness ==
    /\ last.op = "read"
    /\ last.outcome = "NotFound"
    /\ Role(last.user) = "candidate"
    /\ Exists(last.job)
    /\ jobs[last.job].status = "approved"
    /\ ~jobs[last.job].is_open

\* the rows of one pair (job_id, applicant_id) in a job_applications table
PairCount(table, j, u) ==
    Cardinality({i \in DOMAIN table : table[i].job_id = j /\ table[i].applicant_id = u})

\* C16: of two applies in sequence for the same (job_id, applicant_id), the
\* first creates an application with status submitted, the second returns
\* Conflict, and the store holds exactly one row for the pair.
C16_SecondApplyConflicts ==
    [][(/\ last' # last
        /\ last'.op = "apply"
        /\ last'.status_read = "approved"
        /\ last'.open_read)
       => IF PairCount(applications, last'.job, last'.user) = 0
          THEN /\ last'.outcome = "ok"
               /\ applications' = Append(applications,
                                         [job_id |-> last'.job, applicant_id |-> last'.user,
                                          status |-> "submitted"])
          ELSE /\ last'.outcome = "Conflict"
               /\ applications' = applications
               /\ PairCount(applications', last'.job, last'.user) = 1]_vars

C16_Witness ==
    /\ last.op = "apply"
    /\ last.outcome = "Conflict"
    /\ AllIdle
    /\ PairCount(applications, last.job, last.user) = 1
    /\ applications[1].status = "submitted"

C18_NotAcceptingIsRefused ==
    [][/\ (/\ ReturnsAtOnce
           /\ last'.op = "apply"
           /\ Exists(last'.job)
           /\ ~(jobs[last'.job].status = "approved" /\ jobs[last'.job].is_open))
          => (last'.outcome = "NotAccepting" /\ applications' = applications)
       /\ applications' # applications =>
             \E p \in Slots : /\ procs[p].op = "apply"
                              /\ procs'[p] # procs[p]
                              /\ procs[p].status_read = "approved"
                              /\ procs[p].open_read
       /\ \A j \in JobIds : (Exists(j) /\ ~jobs[j].is_open) => ~jobs'[j].is_open]_vars

C18_Witness ==
    /\ last.op = "apply"
    /\ last.outcome = "NotAccepting"
    /\ last.status_read = "approved"
    /\ ~last.open_read
    /\ ~jobs[last.job].is_open
    /\ PairCount(applications, last.job, last.user) = 0

\* the rows of one key (application_id, question_id) in a responses table
KeyCount(table, a, q) ==
    Cardinality({i \in DOMAIN table : table[i].application_id = a /\ table[i].question_id = q})

AllScored == \A t \in DOMAIN tasks : tasks[t].pc = "done"

\* the submissions, in the order they were stored, that answered question q
Submitted(a, q) ==
    {t \in DOMAIN tasks :
        /\ tasks[t].app = a
        /\ \E i \in DOMAIN tasks[t].answers : tasks[t].answers[i].question_id = q}

Latest(S) == CHOOSE t \in S : \A o \in S : o <= t

TextOf(t, q) ==
    LET i == CHOOSE n \in DOMAIN tasks[t].answers : tasks[t].answers[n].question_id = q
    IN  tasks[t].answers[i].answer

\* C19: in every reachable state there is at most one response row per
\* (application_id, question_id), and no step of a submission or of a scoring
\* run deletes a row or changes the key of a row.
C19_OneResponsePerKey ==
    /\ [](\A i, k \in DOMAIN responses :
             (responses[i].application_id = responses[k].application_id
              /\ responses[i].question_id = responses[k].question_id) => i = k)
    /\ [][/\ Len(responses') >= Len(responses)
          /\ \A i \in DOMAIN responses :
                /\ responses'[i].application_id = responses[i].application_id
                /\ responses'[i].question_id = responses[i].question_id]_vars

\* two submissions answered q1, both scoring runs have stored their results
C19_Witness ==
    /\ Cardinality(Submitted(1, "q1")) = 2
    /\ AllScored
    /\ AllIdle
    /\ KeyCount(responses, 1, "q1") = 1
    /\ \A i \in DOMAIN responses : responses[i].ai_score # NoScore

\* C20: once every submission has returned and every scoring run has
\* finished, each row that two or more submissions answered holds the answer
\* text of the latest of them.
C20_LatestAnswerRetained ==
    (AllIdle /\ AllScored) =>
       \A i \in DOMAIN responses :
          LET a == responses[i].application_id
              q == responses[i].question_id
          IN  Cardinality(Submitted(a, q)) >= 2 =>
                 responses[i].answer = TextOf(Latest(Submitted(a, q)), q)

\* the row of one key (application_id, question_id) in a responses table
RowOf(table, a, q) ==
    table[CHOOSE i \in DOMAIN table : table[i].application_id = a /\ table[i].question_id = q]

\* the step in which scoring run t stores its results
Stores(t) == t \in DOMAIN tasks /\ tasks[t].pc = "score_upsert" /\ tasks'[t].pc = "done"

\* the reply is what the contract of the scorer promises
Conforming(reply) ==
    reply.kind = "json" /\ reply.score \in 0 .. 10 /\ reply.reasoning # Null

\* C21: when a scoring run stores its results, the row of an answer whose call
\* succeeded holds the returned score and rationale, and the row of an answer
\* whose call failed holds ai_score 0 and a reasoning "Analysis failed: ...".
C21_ScoringOutcomePersisted ==
    [][\A t \in TaskIds :
          Stores(t) =>
             \A i \in DOMAIN tasks[t].replies :
                LET row == RowOf(responses', tasks[t].app, tasks[t].updates[i].question_id)
                    reply == tasks[t].replies[i]
                IN  /\ Conforming(reply) =>
                          row.ai_score = reply.score /\ row.ai_reasoning = reply.reasoning
                    /\ reply.kind = "raise" =>
                          row.ai_score = 0 /\ row.ai_reasoning = AnalysisFailed]_vars

\* the call gave no score: it raised, or its JSON object holds none
Failing(reply) == reply.kind = "raise" \/ reply.score = NoScore

\* C22: when a scoring run stores its results, every answer of the batch has
\* its row; the row of an answer whose call failed holds ai_score 0 and the row
\* of any other answer holds the score and rationale of its own call, whichever
\* of the other calls of the batch failed.
C22_FailuresStayLocal ==
    [][\A t \in TaskIds :
          Stores(t) =>
             \A i \in DOMAIN tasks[t].replies :
                LET q == tasks[t].updates[i].question_id
                    row == RowOf(responses', tasks[t].app, q)
                    reply == tasks[t].replies[i]
                IN  /\ KeyCount(responses', tasks[t].app, q) = 1
                    /\ IF Failing(reply) THEN row.ai_score = 0
                       ELSE row.ai_score = reply.score /\ row.ai_reasoning = reply.reasoning]_vars

\* the call for q1 failed, the call for q2 did not; both rows are stored
C22_Witness ==
    \E t \in DOMAIN tasks :
       /\ tasks[t].pc = "done"
       /\ Len(tasks[t].replies) = 2
       /\ tasks[t].replies[1].kind = "raise"
       /\ tasks[t].replies[2].score = 7
       /\ KeyCount(responses, 1, "q1") = 1 /\ RowOf(responses, 1, "q1").ai_score = 0
       /\ KeyCount(responses, 1, "q2") = 1 /\ RowOf(responses, 1, "q2").ai_score = 7

\* C23: a scoring run is scheduled in the step in which its submission
\* returns successfully and has not started then; no step of a scoring run,
\* a failing store call included, changes a handler or a returned response.
C23_ScoringIsDetached ==
    [][/\ Len(tasks') # Len(tasks) =>
             /\ Len(tasks') = Len(tasks) + 1
             /\ tasks'[Len(tasks')].pc = "scheduled"
             /\ \E p \in Slots : procs[p].op = "submit" /\ procs'[p].pc = "idle"
             /\ last'.op = "submit"
             /\ last'.outcome = "ok"
       /\ (\E t \in DOMAIN tasks : tasks'[t] # tasks[t]) =>
             (procs' = procs /\ last' = last)]_vars

\* the store call of a scoring run failed; the submission's response is as it was
C23_Witness ==
    /\ last.op = "submit"
    /\ last.outcome = "ok"
    /\ AllIdle
    /\ \E t \in DOMAIN tasks : tasks[t].pc = "failed" /\ tasks[t].answers = last.answers

\* the question ids of the job
QuestionIds(j) == {questions[j][n] : n \in DOMAIN questions[j]}

\* C24: in the step in which a submit returns successfully, every retained
\* answer has its row with the submitted text, no score and the reasoning
\* "Pending analysis...", and the scoring run of the submission has not started.
C24_PendingRowsBeforeResponse ==
    [][\A p \in Slots :
          (/\ procs[p].op = "submit"
           /\ procs'[p].pc = "idle"
           /\ last'.outcome = "ok") =>
             /\ \A i \in DOMAIN last'.answers :
                   last'.answers[i].question_id \in QuestionIds(last'.job) =>
                      LET q == last'.answers[i].question_id
                      IN  /\ KeyCount(responses', last'.app, q) = 1
                          /\ RowOf(responses', last'.app, q).answer = last'.answers[i].answer
                          /\ RowOf(responses', last'.app, q).ai_score = NoScore
                          /\ RowOf(responses', last'.app, q).ai_reasoning = PendingAnalysis
             /\ Len(tasks') = Len(tasks) + 1
             /\ tasks'[Len(tasks')].pc = "scheduled"
             /\ tasks'[Len(tasks')].answers = last'.answers]_vars

\* a submission of two answers has returned; its rows are pending, unscored
C24_Witness ==
    /\ last.op = "submit"
    /\ last.outcome = "ok"
    /\ AllIdle
    /\ Len(tasks) = 1
    /\ tasks[1].pc = "scheduled"
    /\ Len(responses) = 2
    /\ \A i \in DOMAIN responses :
          responses[i].ai_score = NoScore /\ responses[i].ai_reasoning = PendingAnalysis

\* the question ids of the answers that belong to the questions of job j
KnownIds(answers, j) ==
    LET kept == SelectSeq(answers, LAMBDA qa : qa.question_id \in QuestionIds(j))
    IN  [i \in DOMAIN kept |-> kept[i].question_id]

Ids(rows) == [i \in DOMAIN rows |-> rows[i].question_id]

\* C25: no response row is ever stored for a question id that is not a
\* question of the job, a scoring run calls the scorer for exactly the known
\* answers of its batch and prepares a row for each of them, and a submit of
\* the applicant returns successfully whether or not its batch holds unknown ids.
C25_UnknownAnswersDiscarded ==
    /\ \A i \in DOMAIN responses :
          responses[i].question_id \in QuestionIds(applications[responses[i].application_id].job_id)
    /\ \A t \in DOMAIN tasks :
          tasks[t].pc \in {"score_upsert", "done", "failed"} =>
             /\ Ids(tasks[t].updates) = KnownIds(tasks[t].answers, applications[tasks[t].app].job_id)
             /\ Len(tasks[t].replies) = Len(tasks[t].updates)
    /\ (/\ last.op = "submit"
        /\ last.app \in DOMAIN applications
        /\ applications[last.app].applicant_id = last.user
        /\ QuestionIds(applications[last.app].job_id) # {})
       => last.outcome = "ok"

\* a batch with an unknown and a known answer was stored and scored
C25_Witness ==
    /\ last.op = "submit"
    /\ last.outcome = "ok"
    /\ AllIdle
    /\ Len(last.answers) = 2
    /\ last.answers[1].question_id = "qx"
    /\ Len(tasks) = 1
    /\ tasks[1].pc = "done"
    /\ Len(responses) = 1
    /\ responses[1].question_id = "q1"
    /\ responses[1].ai_score = 7

\* C26: a submit by a caller who is not the applicant of the application is
\* answered with Forbidden and has written nothing.
C26_NonOwnerForbidden ==
    (/\ last.op = "submit"
     /\ last.app \in DOMAIN applications
     /\ applications[last.app].applicant_id # last.user)
    => (last.outcome = "Forbidden" /\ ~last.wrote)

\* C27: the ai_score of every response row is null or an integer in 0..10,
\* and a scoring run prepares score 0 for every answer whose reply is not a
\* score in 0..10 with a rationale.
C27_ScoreInRange ==
    /\ \A i \in DOMAIN responses :
          responses[i].ai_score = NoScore \/ responses[i].ai_score \in 0 .. 10
    /\ \A t \in DOMAIN tasks : \A i \in DOMAIN tasks[t].replies :
          ~Conforming(tasks[t].replies[i]) => tasks[t].updates[i].ai_score = 0

\* C28: the update of an edit matches no row exactly when the job is gone or
\* has another version than the expected one; the edit then reads the job
\* again and returns NotFound when it is gone and Conflict when it is there,
\* which only happens to an edit that sent an expected version; it writes nothing.
C28_ZeroRowsDisambiguated ==
    [][\A p \in Slots :
          LET j == procs[p].job
              gone == jobs[j].version = 0
          IN  /\ (procs[p].pc = "upd_check" /\ procs'[p] # procs[p]) =>
                    /\ last'.op = "edit"
                    /\ last'.outcome = IF gone THEN "NotFound" ELSE "Conflict"
                    /\ ~gone => procs[p].cv # NoVersion
                    /\ ~last'.wrote
                    /\ UNCHANGED Store
              /\ (procs[p].pc = "upd_write" /\ procs'[p] # procs[p]) =>
                    ((procs'[p].pc = "upd_check") <=>
                        (gone \/ (procs[p].cv # NoVersion /\ jobs[j].version # procs[p].cv)))]_vars

\* the edit had read the job; the job was deleted before the edit's update
C28_Witness ==
    /\ last.op = "edit"
    /\ last.outcome = "NotFound"
    /\ last.status_read # Null
    /\ ~last.wrote
    /\ jobs[last.job] = Deleted

\* C29: after a successful edit that supplied the technical questions, the
\* stored questions of the job are exactly the supplied ones, also when the
\* patch supplied nothing else.
C29_ChildCollectionsReplaced ==
    (AllIdle /\ EditReturned("ok") /\ last.pq # NoList) =>
        questions[last.job] = last.pq[1]

\* C30: a close of an existing job by hr or admin succeeds in any status, sets
\* is_open to false and changes nothing else of the job row, no child row and
\* no approval request.
C30_CloseOnlyCloses ==
    [][(/\ last' # last
        /\ last'.op = "close"
        /\ Role(last'.user) \in {"hr", "admin"}
        /\ Exists(last'.job))
       => LET j == last'.job
          IN  /\ last'.outcome = "ok"
              /\ ~jobs'[j].is_open
              /\ jobs'[j].status = jobs[j].status
              /\ jobs'[j].approved_by = jobs[j].approved_by
              /\ jobs'[j].approved_at = jobs[j].approved_at
              /\ jobs'[j].rejection_reason = jobs[j].rejection_reason
              /\ jobs'[j].version = jobs[j].version
              /\ jobs'[j].title = jobs[j].title
              /\ jobs'[j].created_by = jobs[j].created_by
              /\ UNCHANGED <<questions, approvals>>]_vars

\* an approved job was closed and is still approved by its reviewer
C30_Witness ==
    /\ last.op = "close"
    /\ last.outcome = "ok"
    /\ AllIdle
    /\ ~jobs[last.job].is_open
    /\ jobs[last.job].status = "approved"
    /\ jobs[last.job].approved_by # Null
    /\ PendingCount(last.job) = 0

\* C31: in every reachable state no job has a rejection_reason together with
\* an approved_by or an approved_at.
C31_ApprovalExcludesRejection ==
    \A j \in JobIds :
       ~(/\ jobs[j].rejection_reason # Null
         /\ (jobs[j].approved_by # Null \/ jobs[j].approved_at # Null))

\* a job that was approved and then rejected holds the reason only
C31_Witness ==
    /\ AllIdle
    /\ jobs[1].status = "rejected"
    /\ jobs[1].rejection_reason # Null
    /\ jobs[1].approved_by = Null
    /\ \E i \in DOMAIN approvals : approvals[i].status = "approved"

\* C33: no step deletes an approval request or changes its job, no step
\* changes a request that is approved or rejected, and so no request leaves
\* pending twice.
C33_AuditLogAppendOnly ==
    [][/\ Len(approvals') >= Len(approvals)
       /\ \A i \in DOMAIN approvals :
             /\ approvals'[i].job_id = approvals[i].job_id
             /\ approvals'[i].requested_by = approvals[i].requested_by
             /\ approvals[i].status # "pending" => approvals'[i] = approvals[i]
             /\ approvals'[i].status = "pending" => approvals[i].status = "pending"]_vars

\* the first request was approved, a later one rejected; both are kept
C33_Witness ==
    /\ AllIdle
    /\ Len(approvals) >= 2
    /\ approvals[1].status = "approved"
    /\ approvals[2].status = "rejected"
    /\ approvals[2].reason # ReapprovalReason

\* C32: an edit of an existing job is refused with Forbidden exactly when the
\* caller is neither the creator of the job nor an admin, whatever role the
\* creator has now, and a refused edit has written nothing.
C32_EditAuthorisation ==
    [][(last' # last /\ last'.op = "edit" /\ Exists(last'.job)) =>
          /\ (last'.outcome = "Forbidden") <=>
                ~(jobs[last'.job].created_by = last'.user \/ Role(last'.user) = "admin")
          /\ last'.outcome = "Forbidden" => (~last'.wrote /\ UNCHANGED Store)]_vars

\* C34: an edit that carries an expected version, through update_job or
\* through update_employee_job, changes the job row only if the stored version
\* equals the expected version at the moment of the write; so two interleaved
\* edits carrying the same version never both change the row.
C34_WriteOnlyAtExpectedVersion ==
    [][\A p \in Procs :
          (/\ procs[p].op \in {"edit", "edit_emp"}
           /\ procs[p].cv # NoVersion
           /\ procs'[p] # procs[p]
           /\ jobs'[procs[p].job] # jobs[procs[p].job])
          => jobs[procs[p].job].version = procs[p].cv]_vars

\* C35: an apply whose insert is refused by the store because the pair
\* (job_id, applicant_id) is already there, the pre-check having passed,
\* returns Conflict as the pre-check would, and no second row is added.
C35_RefusedInsertIsConflict ==
    [][\A p \in Procs :
          (/\ procs[p].pc = "apply_insert"
           /\ procs'[p] # procs[p]
           /\ HasApplied(applications, procs[p].job, procs[p].user))
          => /\ last'.op = "apply"
             /\ last'.user = procs[p].user
             /\ last'.outcome = "Conflict"
             /\ applications' = applications
             /\ PairCount(applications', procs[p].job, procs[p].user) = 1]_vars

\* C36: a domain error of update_status or submit reaches the caller as its own
\* outcome, never as the generic error: for an application that does not
\* exist, update_status by hr or admin returns NotFound and submit returns
\* NotFound.
C36_MissingApplicationIsNotFound ==
    [][(/\ last' # last
        /\ last'.op \in {"status", "submit"}
        /\ last'.app \notin DOMAIN applications
        /\ last'.op = "status" => Role(last'.user) \in {"admin", "hr"})
       => last'.outcome = "NotFound"]_vars

\* C37: under fair scheduling of the scoring runs, after a submission that
\* retained at least one answer, either a later submission follows or every
\* retained row eventually has a score and a reasoning other than the
\* placeholder; no row stays unscored for ever.
Retained(t) == Known(tasks[t].answers, tasks[t].qmap)

RowsScored(t) ==
    \A i \in DOMAIN Retained(t) :
       \E k \in DOMAIN responses :
          /\ responses[k].application_id = tasks[t].app
          /\ responses[k].question_id = Retained(t)[i].question_id
          /\ responses[k].ai_score # NoScore
          /\ responses[k].ai_reasoning # PendingAnalysis

C37_EveryRowEventuallyScored ==
    \A t \in TaskIds :
       (t \in DOMAIN tasks /\ Retained(t) # << >>)
          ~> (Len(tasks) > t \/ (t \in DOMAIN tasks /\ RowsScored(t)))

\* C38: once every create, edit, approve and reject that was started has
\* completed, however they interleaved, a job has a pending approval request
\* if and only if its status is pending.
C38_PendingRequestIffPending ==
    AllIdle =>
       \A j \in JobIds :
          Exists(j) => ((PendingCount(j) >= 1) <=> (jobs[j].status = "pending"))

\* C39: in every reachable state, however edit, approve and reject interleave,
\* a job with a rejection_reason has status rejected, and a job has an
\* approved_by if and only if its status is approved.
C39_ReviewFieldsMatchStatus ==
    \A j \in JobIds :
       Exists(j) =>
          /\ jobs[j].rejection_reason # Null => jobs[j].status = "rejected"
          /\ (jobs[j].approved_by # Null) <=> (jobs[j].status = "approved")

\* C40: in every reachable state, however submissions and scoring runs for
\* one application interleave, a response row with a score holds the answer,
\* the score and the reasoning that one scoring run computed together; and
\* every row a submission writes has no score.
C40_ScoreBelongsToAnswer ==
    /\ [](\A k \in DOMAIN responses :
             responses[k].ai_score # NoScore =>
                \E t \in DOMAIN tasks :
                   /\ tasks[t].pc = "done"
                   /\ \E i \in DOMAIN tasks[t].updates : tasks[t].updates[i] = responses[k])
    /\ [][\A p \in Procs :
             (procs[p].pc = "sub_upsert" /\ procs'[p] # procs[p]) =>
                \A i \in DOMAIN procs[p].answers :
                   procs[p].answers[i].question_id \in procs[p].qmap =>
                      LET row == RowOf(responses', procs[p].app,
                                       procs[p].answers[i].question_id)
                      IN  /\ row.ai_score = NoScore
                          /\ row.answer = procs[p].answers[i].answer]_vars

\* two submissions answered q1 with different texts and both runs have stored
\* their results
C40_Witness ==
    /\ Submitted(1, "q1") = {1, 2}
    /\ TextOf(1, "q1") # TextOf(2, "q1")
    /\ AllScored
    /\ AllIdle
    /\ RowOf(responses, 1, "q1").ai_score # NoScore

====
